---- MODULE Spec2Model ----
(***************************************************************************)
(* comp.py of urbs: comparison of scenario result spreadsheets.            *)
(*                                                                         *)
(* The script is modelled as a state machine whose program counter pc      *)
(* walks through compare_scenarios (derive names, move "base" last, read   *)
(* every workbook, concatenate, analyse, save the figure twice, write the  *)
(* report) and through the directory loop of __main__.                     *)
(*                                                                         *)
(* Strings are sequences of tokens.  Every token starts with a different   *)
(* character and no token contains the first character of the pattern      *)
(* 'scenario ' except "scenario" itself, so str.replace on the characters  *)
(* and Replace on the tokens agree.                                        *)
(***************************************************************************)
EXTENDS Integers, Sequences, FiniteSets, TLC

VARIABLES
    pc,              \* position of the script
    err,             \* what raised, "none" while nothing has
    mtime,           \* modification time of the entries of result/ (0: no entry)
    fs,              \* directory -> the result workbooks it holds
    argv,            \* sys.argv[1:]
    directories,     \* the list the loop of __main__ walks
    dirIdx,          \* position of that loop (1-based)
    output_filename, \* argument of compare_scenarios
    result_files,    \* argument of compare_scenarios, reordered in place
    scenario_names,
    rfi,             \* number of workbooks the READ loop has parsed
    costs,           \* list of frames, then the merged frame
    esums,           \* list of frames, then the merged frame
    spent,
    earnt,
    written,         \* <<output_filename, extension>> of every file written
    report           \* sheets of the workbook written last

vars == <<pc, err, mtime, fs, argv, directories, dirIdx, output_filename,
          result_files, scenario_names, rfi, costs, esums, spent, earnt,
          written, report>>

\* ------------------------------------------------------------------ bounds

\* longest part between 'scenario_' and the final '.xlsx', in tokens
MaxMid == 3
\* the same bound where whole runs are explored
MaxMidRun == 2
\* most workbooks handed to one call of compare_scenarios
MaxFiles == 3
\* the same bound where the sheets vary
MaxSheetFiles == 2
\* most rows of a sheet 'Commodity sums'
MaxSheetRows == 2
\* number of location columns of a sheet 'Commodity sums'
NLoc == 1
\* most directory arguments
MaxDirs == 3
\* latest modification time of an entry of result/
MaxMtime == 2

\* ------------------------------------------------------------------ values

\* A cell is <<v>> for the number v, <<v, unit>> for v / unit, and NaN when blank.
NaN == <<>>

\* a blank cell of a key column (also NaN for pandas, kept a string beside the keys)
NaNKey == "NaN"

Range(s) == {s[i] : i \in DOMAIN s}

NoDup(s) == \A i, j \in DOMAIN s : i # j => s[i] # s[j]

RECURSIVE SeqsUpTo(_, _)
SeqsUpTo(S, n) ==
    IF n = 0 THEN {<<>>}
    ELSE LET shorter == SeqsUpTo(S, n - 1)
         IN  shorter \cup {Append(s, x) : s \in {t \in shorter : Len(t) = n - 1}, x \in S}

\* ------------------------------------------------------------------ names

Tokens == {"scenario", "_", " ", ".xlsx", "base", "a"}

\* str.replace(old, new): every non-overlapping occurrence, left to right
RECURSIVE Replace(_, _, _)
Replace(s, old, new) ==
    IF Len(s) < Len(old) THEN s
    ELSE IF SubSeq(s, 1, Len(old)) = old
         THEN new \o Replace(SubSeq(s, Len(old) + 1, Len(s)), old, new)
         ELSE <<Head(s)>> \o Replace(Tail(s), old, new)

\* os.path.basename: a path is [dir, name], the name holds no separator
Basename(rf) == rf.name

\* line 58-61, one element of the comprehension
ScenarioName(rf) ==
    Replace(Replace(Replace(Basename(rf), <<"_">>, <<" ">>),
                    <<".xlsx">>, <<>>),
            <<"scenario", " ">>, <<>>)

\* glob pattern 'scenario_*.xlsx' of glob_result_files
MatchesPattern(name) ==
    /\ Len(name) >= 3
    /\ SubSeq(name, 1, 2) = <<"scenario", "_">>
    /\ name[Len(name)] = ".xlsx"

\* ------------------------------------------------------------------ frames

\* A frame is [index, columns, data]: row labels, column labels and the cells by
\* position, data[r][c].  Labels may repeat, cells are integers, scaled values or NaN.

CostTypes == {"Fuel", "Invest"}
Commodities == {"Elec", "Heat"}
Properties == {"Created", "Consumed"}

\* the order sort_index puts the labels in
Rank(l) == CASE l = "Elec" -> 1 [] l = "Fuel" -> 2 [] l = "Heat" -> 3
             [] l = "Invest" -> 4 [] OTHER -> 5

LabelLess(a, b) == Rank(a) < Rank(b)

\* a cell divided by a unit; NaN stays NaN
Div(v, unit) == IF v = NaN THEN NaN ELSE <<v[1], unit>>

\* the number a cell counts for in a sum with skipna=True
Num(v) == IF v = NaN THEN 0 ELSE v[1]

\* sum(skipna=True) of a sequence of cells
RECURSIVE SumSeq(_)
SumSeq(s) == IF s = <<>> THEN 0 ELSE Num(Head(s)) + SumSeq(Tail(s))

Column(f, c) == [r \in DOMAIN f.index |-> f.data[r][c]]

\* DataFrame.transpose
Transpose(f) ==
    [index   |-> f.columns,
     columns |-> f.index,
     data    |-> [c \in DOMAIN f.columns |-> Column(f, c)]]

\* sort_index left out: the rows stay as concat joined them
UnsortedIndex(f) == f

\* DataFrame.sort_index on a unique index
SortIndex(f) ==
    LET sorted == SortSeq(f.index, LabelLess)
        pos(l) == CHOOSE r \in DOMAIN f.index : f.index[r] = l
    IN  [index   |-> sorted,
         columns |-> f.columns,
         data    |-> [r \in DOMAIN sorted |-> f.data[pos(sorted[r])]]]

\* frame / unit
DivFrame(f, unit) ==
    [f EXCEPT !.data = [r \in DOMAIN f.index |->
                           [c \in DOMAIN f.columns |-> Div(f.data[r][c], unit)]]]

\* positions of s that satisfy Keep, in order
RECURSIVE Positions(_, _)
Positions(n, keep) ==
    IF n = 0 THEN <<>>
    ELSE IF n \in keep THEN Append(Positions(n - 1, keep), n)
         ELSE Positions(n - 1, keep)

\* frame.loc[:, mask]
SelectColumns(f, keep) ==
    LET ps == Positions(Len(f.columns), keep)
    IN  [index   |-> f.index,
         columns |-> [k \in DOMAIN ps |-> f.columns[ps[k]]],
         data    |-> [r \in DOMAIN f.index |-> [k \in DOMAIN ps |-> f.data[r][ps[k]]]]]

\* frame[mask]
SelectRows(f, keep) ==
    LET ps == Positions(Len(f.index), keep)
    IN  [index   |-> [k \in DOMAIN ps |-> f.index[ps[k]]],
         columns |-> f.columns,
         data    |-> [k \in DOMAIN ps |-> f.data[ps[k]]]]

\* the labels of a list of indexes, each once, in order of first appearance
RECURSIVE Unique(_)
Unique(s) ==
    IF s = <<>> THEN <<>>
    ELSE LET init == Unique(SubSeq(s, 1, Len(s) - 1))
             last == s[Len(s)]
         IN  IF last \in Range(init) THEN init ELSE Append(init, last)

RECURSIVE Flatten(_)
Flatten(ss) == IF ss = <<>> THEN <<>> ELSE Head(ss) \o Flatten(Tail(ss))

\* the cell of frame f at row label l and column position c, NaN without that row
CellAt(f, l, c) ==
    IF \E r \in DOMAIN f.index : f.index[r] = l
    THEN f.data[CHOOSE r \in DOMAIN f.index : f.index[r] = l][c]
    ELSE NaN

\* pd.concat(frames, axis=1, keys=keys): outer join on the row labels, the columns
\* of frame k labelled <<keys[k], column>>
Concat(frames, keys) ==
    LET rows == Unique(Flatten([k \in DOMAIN frames |-> frames[k].index]))
        cols == Flatten([k \in DOMAIN frames |->
                            [c \in DOMAIN frames[k].columns |-> <<k, c>>]])
    IN  [index   |-> rows,
         columns |-> [j \in DOMAIN cols |->
                         <<keys[cols[j][1]], frames[cols[j][1]].columns[cols[j][2]]>>],
         data    |-> [r \in DOMAIN rows |->
                         [j \in DOMAIN cols |->
                             CellAt(frames[cols[j][1]], rows[r], cols[j][2])]]]

\* columns.droplevel(1)
DropLevel1(f) == [f EXCEPT !.columns = [j \in DOMAIN f.columns |-> f.columns[j][1]]]

\* frame.sum(axis=1, level=0): the columns with the same outer label are added,
\* one column per label in order of first appearance
SumLevel0(f) ==
    LET labels == Unique([j \in DOMAIN f.columns |-> f.columns[j][1]])
        members(l) == Positions(Len(f.columns), {j \in DOMAIN f.columns : f.columns[j][1] = l})
    IN  [index   |-> f.index,
         columns |-> labels,
         data    |-> [r \in DOMAIN f.index |->
                         [g \in DOMAIN labels |->
                             <<SumSeq([k \in DOMAIN members(labels[g]) |->
                                          f.data[r][members(labels[g])[k]]])>>]]]

\* frame.loc[prop] on a two-level row index: the rows under prop, labelled by level 1
LocLevel0(f, prop) ==
    LET g == SelectRows(f, {r \in DOMAIN f.index : f.index[r][1] = prop})
    IN  [g EXCEPT !.index = [r \in DOMAIN g.index |-> g.index[r][2]]]

\* frame.sum(): one total per column
ColumnSums(f) == [c \in DOMAIN f.columns |-> SumSeq(Column(f, c))]

\* frame.sum(axis=1): one total per row
RowSums(f) == [r \in DOMAIN f.index |-> SumSeq(f.data[r])]


\* ------------------------------------------------------------------ workbooks

\* A result workbook is [dir, name, cost, esum].  cost is the sheet 'Costs', a list of
\* rows [key, val]; esum is the sheet 'Commodity sums' as parse() and reset_index()
\* give it, a list of rows [level_0, level_1, loc] with loc the location cells.

\* xls.parse('Costs', index_col=[0])
ParseCosts(sheet) ==
    [index   |-> [r \in DOMAIN sheet |-> sheet[r].key],
     columns |-> <<"costs">>,
     data    |-> [r \in DOMAIN sheet |-> <<sheet[r].val>>]]

\* one cell of fillna(method='ffill'): a blank takes the filled cell above it
Filled(cell, above, blank) == IF cell = blank THEN above ELSE cell

\* esum.fillna(method='ffill', inplace=True): every column of the frame
RECURSIVE FillNa(_)
FillNa(rows) ==
    IF Len(rows) <= 1 THEN rows
    ELSE LET init == FillNa(SubSeq(rows, 1, Len(rows) - 1))
             prev == init[Len(init)]
             cur  == rows[Len(rows)]
         IN  Append(init,
                    [level_0 |-> Filled(cur.level_0, prev.level_0, NaNKey),
                     level_1 |-> Filled(cur.level_1, prev.level_1, NaNKey),
                     loc     |-> [c \in DOMAIN cur.loc |->
                                     Filled(cur.loc[c], prev.loc[c], NaN)]])

\* esum.set_index(['level_0', 'level_1'], inplace=True)
SetIndex(rows) ==
    [index   |-> [r \in DOMAIN rows |-> <<rows[r].level_0, rows[r].level_1>>],
     columns |-> IF rows = <<>> THEN <<>> ELSE [c \in DOMAIN rows[1].loc |-> c],
     data    |-> [r \in DOMAIN rows |-> rows[r].loc]]

\* line 83-85: repair broken MultiIndex in the first column
Repair(sheet) == SetIndex(FillNa(sheet))

\* ------------------------------------------------------------------ compare_scenarios

Base == <<"base">>

\* list.index(x): the first position of x
Index(s, x) == CHOOSE i \in DOMAIN s : s[i] = x /\ \A j \in 1..(i - 1) : s[j] # x

\* s.append(s.pop(i))
PopAppend(s, i) == Append(SubSeq(s, 1, i - 1) \o SubSeq(s, i + 1, Len(s)), s[i])

\* line 67
ReorderedFiles(files, names) ==
    IF Base \in Range(names) THEN PopAppend(files, Index(names, Base)) ELSE files

\* line 68
ReorderedNames(names) ==
    IF Base \in Range(names) THEN PopAppend(names, Index(names, Base)) ELSE names

\* an exception caught around the call: the loop goes on with the next directory
OnErrorContinue == "return"

\* nothing catches an exception: the process ends where it is raised
OnError == "error"

\* line 57-62
DeriveNames ==
    /\ pc = "names"
    /\ scenario_names' = [i \in DOMAIN result_files |-> ScenarioName(result_files[i])]
    /\ pc' = "base"
    /\ UNCHANGED <<err, mtime, fs, argv, directories, dirIdx, output_filename,
                   result_files, rfi, costs, esums, spent, earnt, written, report>>

\* line 64-73
MoveBaseLast ==
    /\ pc = "base"
    /\ result_files' = ReorderedFiles(result_files, scenario_names)
    /\ scenario_names' = ReorderedNames(scenario_names)
    /\ costs' = <<>>
    /\ esums' = <<>>
    /\ rfi' = 0
    /\ pc' = "read"
    /\ UNCHANGED <<err, mtime, fs, argv, directories, dirIdx, output_filename,
                   spent, earnt, written, report>>

\* a loop that is left after its first pass
MoreToReadOnce(n, files) == n < Len(files) /\ n < 1

\* for rf in result_files: whether the loop has another workbook to read
MoreToRead(n, files) == n < Len(files)

\* line 77-88, one pass of the loop
ReadFile ==
    /\ pc = "read"
    /\ MoreToRead(rfi, result_files)
    /\ LET rf == result_files[rfi + 1]
       IN  /\ costs' = Append(costs, ParseCosts(rf.cost))
           /\ esums' = Append(esums, Repair(rf.esum))
    /\ rfi' = rfi + 1
    /\ UNCHANGED <<pc, err, mtime, fs, argv, directories, dirIdx, output_filename,
                   result_files, scenario_names, spent, earnt, written, report>>

\* line 78-85 raising: the workbook lacks a sheet, or a sheet is malformed
ReadFail ==
    /\ pc = "read"
    /\ MoreToRead(rfi, result_files)
    /\ pc' = OnError
    /\ err' = "load"
    /\ UNCHANGED <<mtime, fs, argv, directories, dirIdx, output_filename, result_files,
                   scenario_names, rfi, costs, esums, spent, earnt, written, report>>

\* line 91-92; with a key that occurs twice the pandas releases that build the
\* outer level from the distinct keys go on, the others raise (MergeFail)
Merge ==
    /\ pc = "read"
    /\ ~MoreToRead(rfi, result_files)
    /\ costs # <<>>
    /\ costs' = Concat(costs, scenario_names)
    /\ esums' = Concat(esums, scenario_names)
    /\ pc' = "analyse"
    /\ UNCHANGED <<err, mtime, fs, argv, directories, dirIdx, output_filename,
                   result_files, scenario_names, rfi, spent, earnt, written, report>>

\* line 91 raising: nothing to concatenate, or (in the pandas releases that look
\* the keys up in a unique level) a key that occurs twice
MergeFail ==
    /\ pc = "read"
    /\ ~MoreToRead(rfi, result_files)
    /\ costs = <<>> \/ ~NoDup(scenario_names)
    /\ pc' = OnError
    /\ err' = IF costs = <<>> THEN "discover" ELSE "merge"
    /\ UNCHANGED <<mtime, fs, argv, directories, dirIdx, output_filename, result_files,
                   scenario_names, rfi, costs, esums, spent, earnt, written, report>>


Giga == 1000000000
Kilo == 1000

\* the mask costs.sum() >= 0
IsSpentOrZero(total) == total >= 0

\* line 104: the mask costs.sum() > 0, on one column total
IsSpent(total) == total > 0

\* line 105: the mask costs.sum() < 0, on one column total
IsEarnt(total) == total < 0

\* line 113: the mask esums.sum(axis=1) > 0, on one row total
IsUsed(total) == total > 0

\* line 100-103
AnalysedCosts(merged) == DivFrame(Transpose(SortIndex(DropLevel1(merged))), Giga)

\* line 104
Spent(table) ==
    SelectColumns(table, {c \in DOMAIN table.columns : IsSpent(ColumnSums(table)[c])})

\* line 105
Earnt(table) ==
    SelectColumns(table, {c \in DOMAIN table.columns : IsEarnt(ColumnSums(table)[c])})

\* line 111
CreatedSums(merged) == SumLevel0(LocLevel0(merged, "Created"))

\* line 113-115
AnalysedEsums(sums) ==
    DivFrame(Transpose(SortIndex(
                 SelectRows(sums, {r \in DOMAIN sums.index : IsUsed(RowSums(sums)[r])}))),
             Kilo)

\* esums.loc['Created'] finds a row
HasCreated(merged) == \E r \in DOMAIN merged.index : merged.index[r][1] = "Created"

\* line 100-115; line 111 raises KeyError when no sheet has a row under 'Created'
Analyse ==
    /\ pc = "analyse"
    /\ IF HasCreated(esums)
       THEN /\ costs' = AnalysedCosts(costs)
            /\ spent' = Spent(costs')
            /\ earnt' = Earnt(costs')
            /\ esums' = AnalysedEsums(CreatedSums(esums))
            /\ pc' = "plot"
            /\ err' = err
       ELSE /\ costs' = AnalysedCosts(costs)
            /\ spent' = Spent(costs')
            /\ earnt' = Earnt(costs')
            /\ pc' = OnError
            /\ err' = "analyse"
            /\ UNCHANGED esums
    /\ UNCHANGED <<mtime, fs, argv, directories, dirIdx, output_filename,
                   result_files, scenario_names, rfi, written, report>>

\* line 119-164: the figure is drawn, nothing is written
Plot ==
    /\ pc = "plot"
    /\ pc' = "png"
    /\ UNCHANGED <<err, mtime, fs, argv, directories, dirIdx, output_filename,
                   result_files, scenario_names, rfi, costs, esums, spent, earnt,
                   written, report>>

\* line 119-164 raising: the plotting library or urbs.to_color refuses the data
PlotFail ==
    /\ pc = "plot"
    /\ pc' = OnError
    /\ err' = "plot"
    /\ UNCHANGED <<mtime, fs, argv, directories, dirIdx, output_filename, result_files,
                   scenario_names, rfi, costs, esums, spent, earnt, written, report>>

\* the position after the output with extension ext
AfterOutput(ext) == CASE ext = "png" -> "pdf" [] ext = "pdf" -> "xlsx" [] OTHER -> "return"

\* line 166-168, one pass of the loop
SaveFigure ==
    /\ pc \in {"png", "pdf"}
    /\ written' = written \cup {<<dirIdx, output_filename, pc>>}
    /\ pc' = AfterOutput(pc)
    /\ UNCHANGED <<err, mtime, fs, argv, directories, dirIdx, output_filename,
                   result_files, scenario_names, rfi, costs, esums, spent, earnt,
                   report>>

\* line 171-173
WriteReport ==
    /\ pc = "xlsx"
    /\ written' = written \cup {<<dirIdx, output_filename, pc>>}
    /\ report' = [Costs |-> costs, EnergySums |-> esums]
    /\ pc' = AfterOutput(pc)
    /\ UNCHANGED <<err, mtime, fs, argv, directories, dirIdx, output_filename,
                   result_files, scenario_names, rfi, costs, esums, spent, earnt>>

\* line 167 or 171-173 raising: the file cannot be written
WriteFail ==
    /\ pc \in {"png", "pdf", "xlsx"}
    /\ pc' = OnError
    /\ err' = "write"
    /\ UNCHANGED <<mtime, fs, argv, directories, dirIdx, output_filename, result_files,
                   scenario_names, rfi, costs, esums, spent, earnt, written, report>>

NextCompare ==
    \/ DeriveNames
    \/ MoveBaseLast
    \/ ReadFile
    \/ ReadFail
    \/ Merge
    \/ MergeFail
    \/ Analyse
    \/ Plot
    \/ PlotFail
    \/ SaveFigure
    \/ WriteReport
    \/ WriteFail


\* ------------------------------------------------------------------ __main__

\* the order of str on the first characters of the tokens
TokenRank(t) ==
    CASE t = " " -> 1 [] t = ".xlsx" -> 2 [] t = "_" -> 3 [] t = "a" -> 4
      [] t = "base" -> 5 [] OTHER -> 6

\* a < b for two file names
RECURSIVE NameLess(_, _)
NameLess(a, b) ==
    IF b = <<>> THEN FALSE
    ELSE IF a = <<>> THEN TRUE
    ELSE IF Head(a) # Head(b) THEN TokenRank(Head(a)) < TokenRank(Head(b))
    ELSE NameLess(Tail(a), Tail(b))

PathLess(f, g) == NameLess(f.name, g.name)

RECURSIVE SetToSeq(_)
SetToSeq(S) ==
    IF S = {} THEN <<>>
    ELSE LET x == CHOOSE y \in S : TRUE IN <<x>> \o SetToSeq(S \ {x})

\* line 27-38
GlobResultFiles(folder_name) ==
    SortSeq(SetToSeq({f \in fs[folder_name] : MatchesPattern(f.name)}), PathLess)

\* list(reversed(s))
Reversed(s) == [i \in DOMAIN s |-> s[Len(s) + 1 - i]]

\* line 13-25: the entries of result/ that sort last by modification time
MostRecentEntries == {d \in DOMAIN mtime : mtime[d] > 0 /\ \A e \in DOMAIN mtime : mtime[e] <= mtime[d]}

\* line 177-181; entries[-1] raises IndexError when result/ is empty
Start ==
    /\ pc = "main"
    /\ IF argv # <<>>
       THEN /\ directories' = argv
            /\ pc' = "loop"
            /\ err' = err
       ELSE IF MostRecentEntries = {}
       THEN /\ pc' = OnError
            /\ err' = "noentry"
            /\ UNCHANGED directories
       ELSE /\ \E d \in MostRecentEntries : directories' = <<d>>
            /\ pc' = "loop"
            /\ err' = err
    /\ UNCHANGED <<mtime, fs, argv, dirIdx, output_filename, result_files,
                   scenario_names, rfi, costs, esums, spent, earnt, written, report>>

\* line 183-189: the next directory is globbed and compare_scenarios called
Enter ==
    /\ pc = "loop"
    /\ dirIdx <= Len(directories)
    /\ result_files' = Reversed(GlobResultFiles(directories[dirIdx]))
    /\ output_filename' = <<directories[dirIdx], "comparison">>
    /\ scenario_names' = <<>>
    /\ rfi' = 0
    /\ costs' = <<>>
    /\ esums' = <<>>
    /\ spent' = <<>>
    /\ earnt' = <<>>
    /\ pc' = "names"
    /\ UNCHANGED <<err, mtime, fs, argv, directories, dirIdx, written, report>>

\* compare_scenarios returns, the loop goes on
Return ==
    /\ pc = "return"
    /\ dirIdx' = dirIdx + 1
    /\ pc' = "loop"
    /\ UNCHANGED <<err, mtime, fs, argv, directories, output_filename, result_files,
                   scenario_names, rfi, costs, esums, spent, earnt, written, report>>

\* the loop is over, the script ends
Finish ==
    /\ pc = "loop"
    /\ dirIdx > Len(directories)
    /\ pc' = "exit"
    /\ UNCHANGED <<err, mtime, fs, argv, directories, dirIdx, output_filename,
                   result_files, scenario_names, rfi, costs, esums, spent, earnt,
                   written, report>>

Next == Start \/ Enter \/ Return \/ Finish \/ NextCompare

\* ------------------------------------------------------------------ inputs

\* the file names 'scenario_' + middle + '.xlsx' with a middle of at most n tokens
BaseNames(tokens, n) ==
    {<<"scenario", "_">> \o m \o <<".xlsx">> : m \in SeqsUpTo(tokens, n)}

\* the sheets urbs.report writes for a scenario: one cost row, one commodity row
PlainCost(v) == <<[key |-> "Invest", val |-> <<v>>]>>
PlainEsum(v) == <<[level_0 |-> "Created", level_1 |-> "Elec", loc |-> <<<<v>>>>]>>

PlainFile(name, v) ==
    [dir |-> "result", name |-> name, cost |-> PlainCost(v), esum |-> PlainEsum(v)]

\* what a call of compare_scenarios starts from
CallInit(files) ==
    /\ pc = "names"
    /\ err = "none"
    /\ mtime = <<>>
    /\ fs = <<>>
    /\ argv = <<>>
    /\ directories = <<>>
    /\ dirIdx = 1
    /\ output_filename = <<"result", "comparison">>
    /\ result_files = files
    /\ scenario_names = <<>>
    /\ rfi = 0
    /\ costs = <<>>
    /\ esums = <<>>
    /\ spent = <<>>
    /\ earnt = <<>>
    /\ written = {}
    /\ report = <<>>

\* --- name derivation: two workbooks of one directory, every name up to MaxMid

InitNames ==
    \E n1, n2 \in BaseNames(Tokens, MaxMid) :
        /\ n1 # n2
        /\ CallInit(<<PlainFile(n1, 1), PlainFile(n2, 2)>>)

NextNames == DeriveNames \/ MoveBaseLast

SpecNames == InitNames /\ [][NextNames]_vars

\* --- ordering: up to MaxFiles workbooks of one directory in any order, the
\* workbook at position k of the call holding the value k

RunTokens == {".xlsx", "base", "a"}

InitOrder ==
    \E names \in SeqsUpTo(BaseNames(RunTokens, MaxMidRun), MaxFiles) :
        /\ NoDup(names)
        /\ CallInit([k \in DOMAIN names |-> PlainFile(names[k], k)])

SpecOrder == InitOrder /\ [][NextCompare]_vars


\* --- costs: up to MaxSheetFiles workbooks, the first named 'base', with every
\* sheet 'Costs' over CostTypes and CostCells

CostCells == {<<-1>>, <<0>>, <<1>>}

\* a sheet has at least one row, and a cost type labels one row only
CostSheets ==
    {sh \in SeqsUpTo([key : CostTypes, val : CostCells], Cardinality(CostTypes)) :
        sh # <<>> /\ NoDup([r \in DOMAIN sh |-> sh[r].key])}

\* 'scenario_base.xlsx', 'scenario_a.xlsx', 'scenario_aa.xlsx', ...
NthName(k) ==
    <<"scenario", "_">> \o (IF k = 1 THEN Base ELSE [j \in 1..(k - 1) |-> "a"])
        \o <<".xlsx">>

InitCosts ==
    \E sheets \in SeqsUpTo(CostSheets, MaxSheetFiles) :
        CallInit([k \in DOMAIN sheets |->
                     [dir |-> "result", name |-> NthName(k), cost |-> sheets[k],
                      esum |-> PlainEsum(k)]])

SpecCosts == InitCosts /\ [][NextCompare]_vars

\* --- energy: the same with every sheet 'Commodity sums' of at most MaxSheetRows
\* rows whose first column was written with merged cells

EsumCells == {NaN, <<0>>, <<1>>}

EsumRows(keys0, keys1) ==
    [level_0 : keys0, level_1 : keys1, loc : [1..NLoc -> EsumCells]]

\* the sheets of at least one row whose first row has its key; blank0 and blank1
\* say which key columns may hold blanks below it
EsumSheets(blank0, blank1) ==
    {sh \in SeqsUpTo(EsumRows(Properties \cup blank0, Commodities \cup blank1),
                     MaxSheetRows) :
        sh # <<>> /\ sh[1].level_0 # NaNKey /\ sh[1].level_1 # NaNKey}

InitEnergy ==
    \E sheets \in SeqsUpTo({sh \in EsumSheets({NaNKey}, {}) : NoDup(Repair(sh).index)},
                           MaxSheetFiles) :
        CallInit([k \in DOMAIN sheets |->
                     [dir |-> "result", name |-> NthName(k), cost |-> PlainCost(k),
                      esum |-> sheets[k]]])

SpecEnergy == InitEnergy /\ [][NextCompare]_vars

\* --- repair: one workbook, blanks in both key columns

InitRepair ==
    \E sh \in EsumSheets({NaNKey}, {NaNKey}) :
        CallInit(<<[dir |-> "result", name |-> NthName(1), cost |-> PlainCost(1),
                    esum |-> sh]>>)

NextLoad == DeriveNames \/ MoveBaseLast \/ ReadFile \/ ReadFail

SpecRepair == InitRepair /\ [][NextLoad]_vars

\* --- the script: up to MaxDirs directory arguments over Dirs, every directory
\* holding any of DirNames

Dirs == {"d1", "d2"}

DirNames == {<<"scenario", "_", "base", ".xlsx">>, <<"scenario", "_", "a", ".xlsx">>,
             <<"a", ".xlsx">>}

DirFile(d, n) == [PlainFile(n, Len(n)) EXCEPT !.dir = d]

Init ==
    /\ pc = "main"
    /\ err = "none"
    /\ argv \in SeqsUpTo(Dirs, MaxDirs)
    /\ mtime \in IF argv = <<>> THEN [Dirs -> 0..MaxMtime] ELSE {[d \in Dirs |-> 1]}
    /\ \E names \in [Dirs -> SUBSET DirNames] :
           fs = [d \in Dirs |-> {DirFile(d, n) : n \in names[d]}]
    /\ directories = <<>>
    /\ dirIdx = 1
    /\ output_filename = <<>>
    /\ result_files = <<>>
    /\ scenario_names = <<>>
    /\ rfi = 0
    /\ costs = <<>>
    /\ esums = <<>>
    /\ spent = <<>>
    /\ earnt = <<>>
    /\ written = {}
    /\ report = <<>>

Spec == Init /\ [][Next]_vars

\* ------------------------------------------------------------------ claims on names

\* what dropping the extension and the prefix would give: the final '.xlsx' and
\* the leading 'scenario ' go, everything between them stays
DropExtension(name) ==
    IF name # <<>> /\ name[Len(name)] = ".xlsx" THEN SubSeq(name, 1, Len(name) - 1) ELSE name

DropPrefix(name) ==
    IF Len(name) >= 2 /\ SubSeq(name, 1, 2) = <<"scenario", " ">>
    THEN SubSeq(name, 3, Len(name)) ELSE name

PrefixAndExtensionDropped(rf) ==
    DropPrefix(DropExtension(Replace(Basename(rf), <<"_">>, <<" ">>)))

\* C2: every derived name is the basename with '_' replaced by ' ', without its
\* extension and without its leading 'scenario ', and otherwise untouched.
C2_NameDropsOnlyPrefixAndExtension ==
    pc = "base" =>
        \A i \in DOMAIN result_files :
            scenario_names[i] = PrefixAndExtensionDropped(result_files[i])

\* C3: two different workbooks of one directory never get the same scenario name.
C3_NamesUnique ==
    pc = "base" => NoDup(scenario_names)


\* ------------------------------------------------------------------ claims on tables

\* the report has been written
Reported == pc = "return"

\* line 100-105 have run
Analysed ==
    \/ pc \in {"plot", "png", "pdf", "xlsx", "return"}
    \/ pc = "error" /\ err \in {"analyse", "plot", "write"}

LastOf(s) == s[Len(s)]

\* in SpecOrder the workbook passed at position k holds the value k
PassedAt(rf) == rf.cost[1].val[1]

\* C1: with a scenario named 'base' the last row of both written tables is 'base';
\* without one the reordering leaves the list as it was passed and raises nothing.
C1_BaseIsLastRow ==
    /\ (Reported /\ Base \in Range(scenario_names)) =>
           /\ LastOf(report.Costs.index) = Base
           /\ LastOf(report.EnergySums.index) = Base
    /\ (pc = "read" /\ Base \notin Range(scenario_names)) =>
           \A k \in DOMAIN result_files : PassedAt(result_files[k]) = k

\* the cell of cost type ct in the sheet 'Costs' of workbook rf, NaN without that row
SourceCost(rf, ct) ==
    IF \E r \in DOMAIN rf.cost : rf.cost[r].key = ct
    THEN rf.cost[CHOOSE r \in DOMAIN rf.cost : rf.cost[r].key = ct].val
    ELSE NaN

\* the sheet 'Commodity sums' with the blanks of its two key columns filled from
\* above and every other cell as read
RECURSIVE KeysFilled(_)
KeysFilled(rows) ==
    IF Len(rows) <= 1 THEN rows
    ELSE LET init == KeysFilled(SubSeq(rows, 1, Len(rows) - 1))
             prev == init[Len(init)]
             cur  == rows[Len(rows)]
         IN  Append(init,
                    [level_0 |-> IF cur.level_0 = NaNKey THEN prev.level_0 ELSE cur.level_0,
                     level_1 |-> IF cur.level_1 = NaNKey THEN prev.level_1 ELSE cur.level_1,
                     loc     |-> cur.loc])

\* the rows of commodity m under 'Created' in the sheet of workbook rf
CreatedRows(rf, m) ==
    {r \in DOMAIN rf.esum :
        KeysFilled(rf.esum)[r].level_0 = "Created" /\ KeysFilled(rf.esum)[r].level_1 = m}

\* the total over all locations of what workbook rf reports as created of m
RECURSIVE SourceCreatedOver(_, _)
SourceCreatedOver(rf, rows) ==
    IF rows = {} THEN 0
    ELSE LET r == CHOOSE x \in rows : TRUE
         IN  SumSeq(rf.esum[r].loc) + SourceCreatedOver(rf, rows \ {r})

SourceCreated(rf, m) == SourceCreatedOver(rf, CreatedRows(rf, m))

\* C4: every cell of the written Costs table is the cell of that cost type in the
\* workbook the row's name was derived from, divided by 1e9, and every cell of the
\* written Energy sums table is the sum over the locations of the 'Created' row of
\* that commodity in that workbook, divided by 1e3.
C4_CellsComeFromTheNamedFile ==
    Reported =>
        /\ Len(report.Costs.index) = Len(result_files)
        /\ \A r \in DOMAIN report.Costs.index :
               /\ report.Costs.index[r] = ScenarioName(result_files[r])
               /\ \A c \in DOMAIN report.Costs.columns :
                      report.Costs.data[r][c] =
                          Div(SourceCost(result_files[r], report.Costs.columns[c]), Giga)
        /\ \A r \in DOMAIN report.EnergySums.index :
               \A i \in DOMAIN result_files :
                   ScenarioName(result_files[i]) = report.EnergySums.index[r] =>
                       \A c \in DOMAIN report.EnergySums.columns :
                           report.EnergySums.data[r][c] =
                               <<SourceCreated(result_files[i], report.EnergySums.columns[c]),
                                 Kilo>>

\* the sum over all workbooks of the cells of cost type ct
RECURSIVE SourceCostTotal(_, _)
SourceCostTotal(files, ct) ==
    IF files = <<>> THEN 0
    ELSE Num(SourceCost(Head(files), ct)) + SourceCostTotal(Tail(files), ct)

\* C5: a cost type is a column of spent exactly when its sum over all scenarios
\* is above 0 and a column of earnt exactly when it is below 0, so never of both
\* and of neither when the sum is 0.
C5_SpentEarntBySign ==
    Analysed =>
        \A ct \in CostTypes :
            /\ ct \in Range(spent.columns) <=> SourceCostTotal(result_files, ct) > 0
            /\ ct \in Range(earnt.columns) <=> SourceCostTotal(result_files, ct) < 0
            /\ ~(ct \in Range(spent.columns) /\ ct \in Range(earnt.columns))

\* one subset holds an expense, the other a revenue
C5_Witness ==
    /\ Analysed
    /\ "Invest" \in Range(spent.columns)
    /\ "Fuel" \in Range(earnt.columns)
    /\ Len(result_files) = 2

RECURSIVE SourceCreatedTotal(_, _)
SourceCreatedTotal(files, m) ==
    IF files = <<>> THEN 0
    ELSE SourceCreated(Head(files), m) + SourceCreatedTotal(Tail(files), m)

\* C6: a commodity is a column of the written Energy sums table exactly when some
\* sheet has it under 'Created' and its total over all scenarios and locations of
\* those rows is above 0; rows under another property add nothing.
C6_UsedCommoditiesOnly ==
    Reported =>
        \A m \in Commodities :
            m \in Range(report.EnergySums.columns) <=>
                /\ \E i \in DOMAIN result_files : CreatedRows(result_files[i], m) # {}
                /\ SourceCreatedTotal(result_files, m) > 0

Sorted(s) == \A i, j \in DOMAIN s : i < j => LabelLess(s[i], s[j])

\* C7: the written Costs table has one row per workbook, labelled with the scenario
\* names, and its columns are the cost types of all the sheets, each once, sorted.
C7_RowsAndSortedColumns ==
    Reported =>
        /\ Len(report.Costs.index) = Len(result_files)
        /\ report.Costs.index = scenario_names
        /\ Range(report.Costs.columns) =
               {ct \in CostTypes :
                   \E i \in DOMAIN result_files : SourceCost(result_files[i], ct) # NaN}
        /\ Sorted(report.Costs.columns)
        /\ \A r \in DOMAIN report.Costs.index :
               Len(report.Costs.data[r]) = Len(report.Costs.columns)

\* two workbooks, the first lists 'Invest' before 'Fuel', the second lacks 'Fuel'
C7_Witness ==
    /\ Reported
    /\ Len(result_files) = 2
    /\ report.Costs.columns = <<"Fuel", "Invest">>
    /\ \E i \in DOMAIN result_files :
           /\ Len(result_files[i].cost) = 2
           /\ result_files[i].cost[1].key = "Invest"
    /\ \E i \in DOMAIN result_files : SourceCost(result_files[i], "Fuel") = NaN

\* C8: after the repair every row carries the key cells nearest above it and every
\* location cell, blank ones too, is as it was read.
C8_RepairFillsKeysOnly ==
    (pc = "read" /\ rfi = 1) =>
        /\ esums[1].index =
               [r \in DOMAIN result_files[1].esum |->
                   <<KeysFilled(result_files[1].esum)[r].level_0,
                     KeysFilled(result_files[1].esum)[r].level_1>>]
        /\ \A r \in DOMAIN result_files[1].esum :
               /\ esums[1].index[r][1] # NaNKey
               /\ esums[1].index[r][2] # NaNKey
               /\ esums[1].data[r] = result_files[1].esum[r].loc


\* ------------------------------------------------------------------ claims on runs

\* what the pass over directory k of the command line has written
OutputsOf(k) == {w[3] : w \in {x \in written : x[1] = k}}

\* C9: when discovery or loading fails for a directory the run has ended in an
\* error with none of its three outputs written, and an output is written only
\* once every workbook of the directory has been read.
C9_NoOutputBeforeAllRead ==
    /\ err # "none" => pc = "error"
    /\ (pc = "error" /\ err \in {"discover", "load", "merge", "analyse"}) =>
           OutputsOf(dirIdx) = {}
    /\ OutputsOf(dirIdx) # {} =>
           /\ result_files # <<>>
           /\ rfi = Len(result_files)
           /\ rfi = Len(GlobResultFiles(directories[dirIdx]))

\* the last of two workbooks fails to load; nothing of the directory is written
C9_Witness ==
    /\ pc = "error"
    /\ err = "load"
    /\ Len(result_files) = 2
    /\ rfi = 1
    /\ OutputsOf(dirIdx) = {}

AllOutputs == {"png", "pdf", "xlsx"}

\* C10: the directories are handled in command-line order, every output of one is
\* written before the next is touched, a failure ends the process, nothing is ever
\* written for a later directory and the outputs of the earlier ones are there.
C10_DirectoriesInOrder ==
    /\ \A w \in written :
           /\ w[1] <= dirIdx
           /\ w[2] = <<directories[w[1]], "comparison">>
    /\ \A k \in DOMAIN directories : k < dirIdx => OutputsOf(k) = AllOutputs
    /\ pc \in {"names", "base", "read"} => OutputsOf(dirIdx) = {}
    /\ pc = "error" => ~ENABLED Next

\* the second of three directories fails, the first has its outputs, the third
\* holds workbooks and gets nothing
C10_Witness ==
    /\ pc = "error"
    /\ Len(directories) = 3
    /\ dirIdx = 2
    /\ OutputsOf(1) = AllOutputs
    /\ OutputsOf(3) = {}
    /\ GlobResultFiles(directories[3]) # <<>>


====
